---------------------------- MODULE Spec2Model ----------------------------
(***************************************************************************)
(* A model of src/src/lib.rs: Buffer<T>, a fixed-capacity, zero-          *)
(* initialised heap region partitioned into cap slots of padded_size      *)
(* bytes, viewed through typed entries and through byte vectors.          *)
(*                                                                         *)
(* Memory is a function from addresses to bytes.  The element type T is   *)
(* the pair (size_of T, align_of T).  A Vec<u8> is the triple             *)
(* (ptr, len, cap) that Vec::from_raw_parts stores; dropping a Vec whose  *)
(* cap is not 0 hands its ptr to the allocator.                           *)
(***************************************************************************)
EXTENDS Integers, Sequences, FiniteSets, TLC

VARIABLES
    usize_bytes,      \* mem::size_of::<usize>() of the target
    T,                \* [size, align]: mem::size_of::<T>(), mem::align_of::<T>()
    arg,              \* [cap, padding]: the arguments of the constructor call
    result,           \* "Pending" before the call, then "Ok" or the Errors variant
    new_padded_size,  \* the local padded_size of new() (NoValue before the call)
    buf,              \* the Buffer returned: [ptr, cap, size, padded_size, entries]
    owned,            \* the Buffer value is still owned by the caller
    heap,             \* the allocator's record of the backing block
    releases,         \* number of times the block's base pointer was deallocated
    corrupt,          \* the allocator was handed something that is not a live
                      \* block of its own, or released memory was stored into
    aborted,          \* the process was stopped by the allocator
    mem,              \* address -> byte, over the backing block
    slots,            \* history of the live block: per slot and field the last
                      \* value stored through entries (0 if none)
    dataLive,         \* Vec<u8> values returned by data() and not yet dropped
    buffersLive,      \* Vec<Vec<u8>> values returned by buffers() and not yet dropped
    ret,              \* the last operation and the value it returned
    alloc_answer,     \* what the allocator answers when asked: 0 for a refusal,
                      \* else the block's address in units of align_of T
    layout_max        \* the size limit of Layout::from_size_align in the std the
                      \* crate is built with: "usize" (2018) or "isize" (later)

vars == <<usize_bytes, T, arg, result, new_padded_size, buf, owned, heap,
          releases, corrupt, aborted, mem, slots, dataLive, buffersLive, ret,
          alloc_answer, layout_max>>

---------------------------------------------------------------------------
(* Bounds of the model *)

MaxCap == 2          \* capacities 0..MaxCap are tried
MaxLive == 1         \* undropped results of data() and buffers() at a time
MaxReleases == 2     \* no further drop is followed once the base pointer was
                     \* deallocated this many times (one drop may add two)

(* Program constant *)
CACHE_LINE_SIZE == 64

NoValue == -1
NoBuffer == [ptr |-> 0, cap |-> 0, size |-> 0, padded_size |-> 0, entries |-> <<>>]
NoHeap == [state |-> "none", ptr |-> 0, size |-> 0, align |-> 1]
Unit == <<>>

(* usize::MAX and isize::MAX of the 2-byte target.  Those of a target with a  *)
(* usize of 4 bytes or more (2^32 - 1, 2^31 - 1 and above) are not below any  *)
(* integer the model can hold, so on such a target no x exceeds them.         *)
USIZE_MAX_2 == 65535
ISIZE_MAX_2 == 32767
ExceedsUsizeMax(x) == usize_bytes = 2 /\ x > USIZE_MAX_2
ExceedsIsizeMax(x) == usize_bytes = 2 /\ x > ISIZE_MAX_2

---------------------------------------------------------------------------
(* Pure functions of lib.rs *)

max(a, b) == IF a >= b THEN a ELSE b

\* usize::checked_mul: NoValue stands for None
checked_mul_wrapping(a, b) ==
    IF usize_bytes = 2 THEN (a * b) % (USIZE_MAX_2 + 1) ELSE a * b
checked_mul(a, b) == IF ExceedsUsizeMax(a * b) THEN NoValue ELSE a * b

\* alloc_guard: "" stands for Ok(alloc_size)
alloc_guard(alloc_size) ==
    IF usize_bytes < 8 /\ ExceedsIsizeMax(alloc_size)
    THEN "AllocCapacityOverflow"
    ELSE ""

\* the match on padding in new()
resolve_no_floor(size, padding) ==
    CASE padding.kind = "None" -> size
      [] padding.kind = "Padded" -> max(padding.requested, 1)
      [] padding.kind = "CacheAligned" ->
            IF size % CACHE_LINE_SIZE = 0 THEN size
            ELSE (size \div CACHE_LINE_SIZE + 1) * CACHE_LINE_SIZE
resolve_always_pad(size, padding) ==
    CASE padding.kind = "None" -> size
      [] padding.kind = "Padded" -> max(max(padding.requested, size), 1)
      [] padding.kind = "CacheAligned" ->
            (size \div CACHE_LINE_SIZE + 1) * CACHE_LINE_SIZE
resolve_none_as_aligned(size, padding) ==
    CASE padding.kind = "Padded" -> max(max(padding.requested, size), 1)
      [] OTHER ->
            IF size % CACHE_LINE_SIZE = 0 THEN size
            ELSE (size \div CACHE_LINE_SIZE + 1) * CACHE_LINE_SIZE
resolve(size, padding) ==
    CASE padding.kind = "None" -> size
      [] padding.kind = "Padded" -> max(max(padding.requested, size), 1)
      [] padding.kind = "CacheAligned" ->
            IF size % CACHE_LINE_SIZE = 0 THEN size
            ELSE (size \div CACHE_LINE_SIZE + 1) * CACHE_LINE_SIZE

RECURSIVE IsPowerOfTwo(_)
IsPowerOfTwo(n) == n >= 1 /\ (n = 1 \/ (n % 2 = 0 /\ IsPowerOfTwo(n \div 2)))

\* Layout::from_size_align: align is a power of two, and size rounded up to
\* align does not exceed the limit (size > MAX - (align - 1) is refused)
from_size_align(alloc_size, align) ==
    /\ IsPowerOfTwo(align)
    /\ IF layout_max = "usize"
       THEN ~ExceedsUsizeMax(alloc_size + (align - 1))
       ELSE ~ExceedsIsizeMax(alloc_size + (align - 1))

\* the entries vector built by buffer_from: entry i at ptr.add(i * padded_size)
entries_packed(ptr, cap, size, padded_size) ==
    [k \in 1..cap |-> ptr + (k - 1) * size]
entries_from(ptr, cap, size, padded_size) ==
    [k \in 1..cap |-> ptr + (k - 1) * padded_size]

\* buffer_from: ptr = 0 stands for an allocation the allocator refused
buffer_from(cap, size, padded_size, alloc_size, ptr) ==
    IF ~from_size_align(alloc_size, T.align)
    THEN [err |-> "InvalidLayout", buf |-> NoBuffer, heap |-> NoHeap]
    ELSE IF ptr = 0
    THEN [err |-> "InsufficientMemory", buf |-> NoBuffer, heap |-> NoHeap]
    ELSE [err |-> "Ok",
          buf |-> [ptr |-> ptr, cap |-> cap, size |-> size,
                   padded_size |-> padded_size,
                   entries |-> entries_from(ptr, cap, size, padded_size)],
          heap |-> [state |-> "allocated", ptr |-> ptr, size |-> alloc_size,
                    align |-> T.align]]

zero_buffer == [err |-> "ZeroBufferNotSupported", buf |-> NoBuffer, heap |-> NoHeap]

\* new(cap, padding); ptr is what the allocator answers if it is asked
new(cap, padding, ptr) ==
    LET size == T.size
        padded_size == resolve(size, padding)
        product == checked_mul(cap, padded_size)
    IN  IF product = NoValue
        THEN [err |-> "BufferSizeOverflow", buf |-> NoBuffer, heap |-> NoHeap]
        ELSE IF alloc_guard(product) # ""
        THEN [err |-> alloc_guard(product), buf |-> NoBuffer, heap |-> NoHeap]
        ELSE IF product = 0
        THEN zero_buffer
        ELSE buffer_from(cap, size, padded_size, product, ptr)

---------------------------------------------------------------------------
(* Accessors of Buffer *)

cap(self) == self.cap
size(self) == self.size
padded_size(self) == self.padded_size
data_size(self) == self.cap * self.padded_size
entries(self) == self.entries

buffers_padded(self) ==
    [k \in 1..self.cap |->
        [ptr |-> self.ptr + (k - 1) * self.padded_size,
         len |-> self.padded_size, cap |-> self.padded_size]]
buffers(self) ==
    [k \in 1..self.cap |->
        [ptr |-> self.ptr + (k - 1) * self.padded_size,
         len |-> self.size, cap |-> self.size]]

data(self) == [ptr |-> self.ptr, len |-> data_size(self), cap |-> data_size(self)]

\* the bytes a Vec<u8> shows: it aliases the memory it points to
Bytes(vec) == [j \in 1..vec.len |-> mem[vec.ptr + j - 1]]

\* T is a struct of 8-byte integer fields (Thing), or one narrower integer
\* (u8, u32): the byte offsets of its fields and the width of the field at f
FieldOffsets(sz) == {f \in 0 .. (sz - 1) : f % 8 = 0}
FieldWidth(sz, f) == IF sz - f >= 8 THEN 8 ELSE sz - f

\* the little-endian bytes of integer v in a field of w bytes
ToBytes(w, v) ==
    [j \in 1..w |->
        CASE j = 1 -> v % 256
          [] j = 2 -> (v \div 256) % 256
          [] j = 3 -> (v \div 65536) % 256
          [] j = 4 -> (v \div 16777216) % 256
          [] OTHER -> 0]

\* a store of bytes at addr
Store(m, addr, bytes) ==
    [a \in DOMAIN m |->
        IF a >= addr /\ a < addr + Len(bytes) THEN bytes[a - addr + 1] ELSE m[a]]

\* a released block: what its bytes hold is no longer determined
Indeterminate == NoValue
Released(m) == [a \in DOMAIN m |-> Indeterminate]
NoHistory == <<>>

---------------------------------------------------------------------------
(* Inputs *)

Values == {12, 36}

Pad(kind, requested) == [kind |-> kind, requested |-> requested]

LifecycleTypes == {[size |-> 0, align |-> 1], [size |-> 1, align |-> 1],
                   [size |-> 16, align |-> 8]}
LifecyclePaddings == {Pad("None", 0), Pad("Padded", 4), Pad("Padded", 18)}

TypeOK ==
    /\ usize_bytes \in {2, 8}
    /\ layout_max \in {"usize", "isize"}
    /\ result \in {"Pending", "Ok", "BufferSizeOverflow", "AllocCapacityOverflow",
                   "InvalidLayout", "InsufficientMemory", "ZeroBufferNotSupported"}
    /\ owned \in BOOLEAN /\ corrupt \in BOOLEAN /\ aborted \in BOOLEAN
    /\ releases \in 0 .. (MaxReleases + 1)
    /\ dataLive \in 0..MaxLive /\ buffersLive \in 0..MaxLive
    /\ heap.state \in {"none", "allocated", "released"}

Start(targets, types, caps, paddings, answers, limits) ==
    /\ usize_bytes \in targets
    /\ layout_max \in limits
    /\ alloc_answer \in answers
    /\ T \in types
    /\ arg \in [cap : caps, padding : paddings]
    /\ result = "Pending"
    /\ new_padded_size = NoValue
    /\ buf = NoBuffer
    /\ owned = FALSE
    /\ heap = NoHeap
    /\ releases = 0
    /\ corrupt = FALSE
    /\ aborted = FALSE
    /\ mem = <<>>
    /\ slots = <<>>
    /\ dataLive = 0
    /\ buffersLive = 0
    /\ ret = [op |-> "none", val |-> Unit]

Init == Start({8}, LifecycleTypes, 0..MaxCap, LifecyclePaddings, {0, 1}, {"usize"})

---------------------------------------------------------------------------
(* Operations *)

\* Global.alloc_zeroed: the address answered, a multiple of the alignment
alloc_zeroed(align) == alloc_answer * align

\* Buffer::new / Buffer::padded / Buffer::cache_aligned
New ==
    /\ result = "Pending"
    /\ LET r == new(arg.cap, arg.padding, alloc_zeroed(T.align)) IN
          /\ result' = r.err
          /\ buf' = r.buf
          /\ heap' = r.heap
          /\ owned' = (r.err = "Ok")
          /\ mem' = [a \in r.heap.ptr .. (r.heap.ptr + r.heap.size - 1) |-> 0]
          /\ slots' = [k \in 1..r.buf.cap |-> [f \in FieldOffsets(r.buf.size) |-> 0]]
          /\ ret' = [op |-> "new", val |-> r.err]
    /\ new_padded_size' = resolve(T.size, arg.padding)
    /\ UNCHANGED <<usize_bytes, alloc_answer, layout_max, T, arg, releases, corrupt, aborted, dataLive,
                   buffersLive>>

Usable == result = "Ok" /\ owned /\ ~aborted

Read(op, val) ==
    /\ Usable
    /\ ret' = [op |-> op, val |-> val]
    /\ UNCHANGED <<usize_bytes, alloc_answer, layout_max, T, arg, result, new_padded_size, buf, owned, heap,
                   releases, corrupt, aborted, mem, slots, dataLive, buffersLive>>

Call_cap == Read("cap", cap(buf))
Call_size == Read("size", size(buf))
Call_padded_size == Read("padded_size", padded_size(buf))
Call_data_size == Read("data_size", data_size(buf))
Call_entries == Read("entries", entries(buf))

Call_buffers ==
    /\ Usable
    /\ dataLive + buffersLive < MaxLive
    /\ buffersLive' = buffersLive + 1
    /\ ret' = [op |-> "buffers", val |-> buffers(buf)]
    /\ UNCHANGED <<usize_bytes, alloc_answer, layout_max, T, arg, result, new_padded_size, buf, owned, heap,
                   releases, corrupt, aborted, mem, slots, dataLive>>

Call_data ==
    /\ Usable
    /\ dataLive + buffersLive < MaxLive
    /\ dataLive' = dataLive + 1
    /\ ret' = [op |-> "data", val |-> data(buf)]
    /\ UNCHANGED <<usize_bytes, alloc_answer, layout_max, T, arg, result, new_padded_size, buf, owned, heap,
                   releases, corrupt, aborted, mem, slots, buffersLive>>

\* a store through entries[k] into the field at byte offset f of the element:
\* buf.entries[k].value2 = v, or *buf.entries[k] = v for a one-field T.  A
\* store into a released block is a use after free: it changes nothing the
\* Buffer still has, may damage what the allocator put there since, and may
\* stop the process.
Write ==
    /\ Usable
    /\ \E k \in 1..buf.cap, f \in FieldOffsets(buf.size), v \in Values :
          IF heap.state = "allocated"
          THEN /\ mem' = Store(mem, buf.entries[k] + f,
                               ToBytes(FieldWidth(buf.size, f), v))
               /\ slots' = [slots EXCEPT ![k][f] = v]
               /\ UNCHANGED <<corrupt, aborted>>
          ELSE /\ corrupt' = TRUE
               /\ aborted' \in BOOLEAN
               /\ UNCHANGED <<mem, slots>>
    /\ ret' = [op |-> "write", val |-> Unit]
    /\ UNCHANGED <<usize_bytes, alloc_answer, layout_max, T, arg, result,
                   new_padded_size, buf, owned, heap, releases, dataLive,
                   buffersLive>>

\* drop of the Vec<u8> returned by data(): RawVec deallocates ptr when cap # 0.
\* Deallocating a released block is a double free: the allocator may stop the
\* process or carry on.
DropData ==
    /\ result = "Ok" /\ ~aborted
    /\ dataLive > 0
    /\ releases < MaxReleases
    /\ dataLive' = dataLive - 1
    /\ ret' = [op |-> "drop_data", val |-> Unit]
    /\ IF data(buf).cap = 0
       THEN UNCHANGED <<heap, releases, mem, slots, aborted, corrupt>>
       ELSE /\ heap' = [heap EXCEPT !.state = "released"]
            /\ releases' = releases + 1
            /\ IF heap.state = "allocated"
               THEN /\ mem' = Released(mem)
                    /\ slots' = NoHistory
                    /\ UNCHANGED <<aborted, corrupt>>
               ELSE /\ corrupt' = TRUE
                    /\ aborted' \in BOOLEAN
                    /\ UNCHANGED <<mem, slots>>
    /\ UNCHANGED <<usize_bytes, alloc_answer, layout_max, T, arg, result,
                   new_padded_size, buf, owned, buffersLive>>

\* drop of the Vec<Vec<u8>> returned by buffers(): each inner Vec whose cap is
\* not 0 deallocates its ptr, the first the block's base, the others addresses
\* inside the block, which the allocator never returned; then the outer Vec's
\* own storage goes.  If the block was released before, that storage may have
\* been placed in the block and stored into through entries, so what the drop
\* hands to the allocator is not determined: the base zero, one or two times,
\* or other addresses.
DropBuffers ==
    /\ result = "Ok" /\ ~aborted
    /\ buffersLive > 0
    /\ releases < MaxReleases
    /\ buffersLive' = buffersLive - 1
    /\ ret' = [op |-> "drop_buffers", val |-> Unit]
    /\ LET vecs == buffers(buf)
           freed == {k \in 1..Len(vecs) : vecs[k].cap # 0}
       IN  IF freed = {}
           THEN UNCHANGED <<heap, releases, mem, slots, aborted, corrupt>>
           ELSE IF heap.state = "allocated"
           THEN /\ heap' = [heap EXCEPT !.state = "released"]
                /\ releases' = releases + 1
                /\ mem' = Released(mem)
                /\ slots' = NoHistory
                /\ IF \E k \in freed : vecs[k].ptr # heap.ptr
                   THEN corrupt' = TRUE /\ aborted' \in BOOLEAN
                   ELSE UNCHANGED <<corrupt, aborted>>
           ELSE /\ \E n \in 0..2 : releases' = releases + n
                /\ corrupt' = TRUE
                /\ aborted' \in BOOLEAN
                /\ UNCHANGED <<heap, mem, slots>>
    /\ UNCHANGED <<usize_bytes, alloc_answer, layout_max, T, arg, result,
                   new_padded_size, buf, owned, dataLive>>

\* the Buffer goes out of scope.  Buffer has no Drop implementation: only the
\* entries vector's own storage goes, the backing block is not touched.
EndOwnership ==
    /\ Usable
    /\ owned' = FALSE
    /\ ret' = [op |-> "drop_buffer", val |-> Unit]
    /\ UNCHANGED <<usize_bytes, alloc_answer, layout_max, T, arg, result, new_padded_size, buf, heap,
                   releases, corrupt, aborted, mem, slots, dataLive, buffersLive>>

Next ==
    \/ New
    \/ Call_cap
    \/ Call_size
    \/ Call_padded_size
    \/ Call_data_size
    \/ Call_entries
    \/ Call_buffers
    \/ Call_data
    \/ Write
    \/ DropData
    \/ DropBuffers
    \/ EndOwnership

Spec == Init /\ [][Next]_vars

\* construction from a wide range of types, capacities and policies on both
\* targets, followed by reads
NewTypes == {[size |-> 0, align |-> 1], [size |-> 0, align |-> 8],
             [size |-> 1, align |-> 1], [size |-> 4, align |-> 4],
             [size |-> 16, align |-> 8], [size |-> 64, align |-> 64],
             [size |-> 72, align |-> 8], [size |-> 128, align |-> 8]}
NewPaddings == {Pad("None", 0), Pad("CacheAligned", 0)}
               \cup {Pad("Padded", r) : r \in {0, 1, 3, 18, 64, 32767, 40000}}

\* on the 8-byte target the two limits of from_size_align agree on every size
\* the model can hold, so one of them is tried there
InitNew ==
    \/ Start({2}, NewTypes, 0..MaxCap, NewPaddings, {0, 1, 3}, {"usize", "isize"})
    \/ Start({8}, NewTypes, 0..MaxCap, NewPaddings, {0, 1, 3}, {"isize"})

NextNew ==
    \/ New
    \/ Call_cap
    \/ Call_size
    \/ Call_padded_size
    \/ Call_data_size
    \/ Call_entries
    \/ Call_data

SpecNew == InitNew /\ [][NextNew]_vars

---------------------------------------------------------------------------
(* Properties *)

Constructed == result = "Ok"
Policy == arg.padding.kind

\* C1: over any sequence of operations on a constructed Buffer the backing
\* block is released exactly once: never more than once, not while the Buffer
\* is owned, and it has been released once the Buffer's ownership has ended.
C1_ReleasedExactlyOnce ==
    Constructed =>
        /\ releases <= 1
        /\ owned => heap.state = "allocated"
        /\ ~owned => (heap.state = "released" /\ releases = 1)

\* C2: calling an accessor and discarding what it returned leaves the Buffer
\* allocated, with its fields and its backing bytes unchanged.
C2_AccessorsArePureReads ==
    [][ret'.op \in {"drop_data", "drop_buffers"}
          => (heap' = heap /\ mem' = mem /\ buf' = buf /\ aborted' = aborted)]_vars

\* the byte that the write history puts at offset o of the block
ExpectedByte(o) ==
    LET k == o \div new_padded_size
        j == o % new_padded_size
        f == j - (j % 8)
    IN  IF j < T.size
        THEN ToBytes(FieldWidth(T.size, f), slots[k + 1][f])[j - f + 1]
        ELSE 0

\* C3: after construction and any writes through entries, data() has length
\* cap * stride; slot k's element bytes are those of the last values written
\* to its fields (zero if none was), and every padding byte is zero.
C3_DataReflectsWrites ==
    (Constructed /\ heap.state = "allocated") =>
        LET d == Bytes(data(buf)) IN
        /\ Len(d) = arg.cap * new_padded_size
        /\ \A o \in 0 .. (Len(d) - 1) : d[o + 1] = ExpectedByte(o)

C3_Witness ==
    /\ Constructed /\ heap.state = "allocated"
    /\ ret.op = "data"
    /\ arg.cap = 2 /\ T.size = 16 /\ new_padded_size = 18
    /\ slots[1][0] = 0 /\ slots[1][8] = 36
    /\ slots[2][0] = 12 /\ slots[2][8] = 0

\* C4: buffers() returns cap views in slot order; view k has length size_of T,
\* lies inside the block and equals the sub-range of data() that starts at
\* k * stride.
C4_BuffersAreElementViews ==
    ret.op = "buffers" =>
        LET vs == ret.val
            d == Bytes(data(buf))
        IN  /\ Len(vs) = arg.cap
            /\ \A k \in 1..Len(vs) :
                  LET off == (k - 1) * new_padded_size IN
                  /\ vs[k].len = T.size
                  /\ vs[k].ptr = buf.ptr + off
                  /\ off + vs[k].len <= arg.cap * new_padded_size
                  /\ Bytes(vs[k]) = SubSeq(d, off + 1, off + T.size)

C4_Witness ==
    /\ ret.op = "buffers"
    /\ heap.state = "allocated"
    /\ arg.cap = 2 /\ T.size = 1 /\ new_padded_size = 4
    /\ slots[2][0] = 12

\* C5: a Buffer constructed by padded(cap, requested) has
\* padded_size() = max(requested, size_of T, 1).
C5_PaddedStride ==
    (Constructed /\ Policy = "Padded") =>
        LET s == buf.padded_size
            r == arg.padding.requested
        IN  /\ s >= r /\ s >= T.size /\ s >= 1
            /\ s \in {r, T.size, 1}
            /\ ret.op = "padded_size" => ret.val = s

C5_Witness ==
    /\ Constructed /\ Policy = "Padded"
    /\ ret.op = "padded_size"
    /\ arg.padding.requested < T.size

\* C6: under CacheAligned the resolved stride is the smallest multiple of 64
\* that is at least size_of T.
C6_CacheAlignedStride ==
    (result # "Pending" /\ Policy = "CacheAligned") =>
        /\ new_padded_size % 64 = 0
        /\ new_padded_size >= T.size
        /\ new_padded_size - T.size < 64
        /\ Constructed => buf.padded_size = new_padded_size

C6_Witness ==
    /\ Constructed /\ Policy = "CacheAligned"
    /\ T.size = 64 /\ buf.padded_size = 64

\* C7: Buffer::new(cap) for size_of T > 0 and cap >= 1, when it succeeds,
\* yields cap() = cap, size() = padded_size() = size_of T,
\* data_size() = cap * size_of T and data().len() = data_size().
C7_UnpaddedProperties ==
    (Constructed /\ Policy = "None" /\ T.size > 0 /\ arg.cap >= 1) =>
        /\ ret.op = "cap" => ret.val = arg.cap
        /\ ret.op = "size" => ret.val = T.size
        /\ ret.op = "padded_size" => ret.val = T.size
        /\ ret.op = "data_size" => ret.val = arg.cap * T.size
        /\ ret.op = "data" => (/\ ret.val.len = arg.cap * T.size
                               /\ Len(Bytes(ret.val)) = data_size(buf))

C7_Witness ==
    /\ Constructed /\ Policy = "None"
    /\ ret.op = "data_size"
    /\ arg.cap = 2 /\ T.size = 16

\* C8: construction fails with BufferSizeOverflow if cap * stride exceeds the
\* unsigned range; else, on targets with usize narrower than 8 bytes, with
\* AllocCapacityOverflow if it exceeds isize::MAX; else with
\* ZeroBufferNotSupported if it is 0.  No Buffer is returned then, and every
\* Buffer returned has the exact product as its nonzero total size.
C8_ValidationOrder ==
    result # "Pending" =>
        LET product == arg.cap * new_padded_size
            overflow == ExceedsUsizeMax(product)
            too_big == usize_bytes < 8 /\ ExceedsIsizeMax(product)
        IN  /\ overflow => result = "BufferSizeOverflow"
            /\ (~overflow /\ too_big) => result = "AllocCapacityOverflow"
            /\ (~overflow /\ ~too_big /\ product = 0)
                  => result = "ZeroBufferNotSupported"
            /\ ~Constructed => (buf = NoBuffer /\ heap = NoHeap)
            /\ Constructed => (/\ product > 0
                               /\ heap.size = product
                               /\ data_size(buf) = product
                               /\ DOMAIN mem = buf.ptr .. (buf.ptr + product - 1))

C8_Witness ==
    /\ result = "AllocCapacityOverflow"
    /\ usize_bytes = 2
    /\ arg.cap * new_padded_size <= USIZE_MAX_2

\* C9: for a zero-size element type the stride resolved under Padded and
\* under CacheAligned is at least 1.
C9_ZeroSizeStrideFloor ==
    (result # "Pending" /\ T.size = 0 /\ Policy \in {"Padded", "CacheAligned"})
        => new_padded_size >= 1

\* C10: in every constructed Buffer every entry's byte offset, and so its
\* address, is a multiple of align_of T.
C10_EntriesAligned ==
    Constructed =>
        /\ buf.ptr % T.align = 0
        /\ \A k \in 1..buf.cap :
              /\ ((k - 1) * buf.padded_size) % T.align = 0
              /\ buf.entries[k] % T.align = 0

=============================================================================
